---- MODULE Spec2Model ----
(***************************************************************************)
(* The file-operation engine of openrouter_cli (core/agent.py: AIAgent)    *)
(* with its backup store and undo history, and the tool dispatcher         *)
(* (core/tools.py: ToolsManager.execute_tool) that routes to it.           *)
(*                                                                         *)
(* A path is the sequence of its components, <<"d1", "a.txt">>; the empty  *)
(* path string "" is <<>>.  A file's content is a string; NoFile marks a   *)
(* path that does not exist.  Python's None is the string "None".          *)
(***************************************************************************)
EXTENDS Integers, Sequences, FiniteSets, TLC

\* ------------------------------------------------------------------ bounds
\* Number of write_file / remove_file calls in one run.
MaxOps == 2
\* The wall clock runs over the seconds 0..MaxSecond.
MaxSecond == 1
\* preferences.max_history is drawn from 0..MaxHistory.
MaxHistory == 2
\* Number of write_file / remove_file calls made through the dispatcher in one run.
MaxToolOps == 1
\* Disturbances from outside the engine in one run: a failed snapshot copy, a
\* file deleted by another process, a backup file cleaned up by the user.
MaxFaults == 1
\* The longest text of a file that search_files reads, in characters.
MaxTextLen == 7

\* ------------------------------------------------------------- the universe
Paths == {<<"d1", "a.txt">>, <<"d2", "a.txt">>}
\* The contents the calls write.
Contents == {"", "v1"}
\* What a file that exists when the engine starts holds.
OldContent(path) == "old " \o path[1]
\* The paths given to the dispatcher's tools.
ToolPaths == {<<"d1", "a.txt">>}
NoFile == "<no file>"
NoPath == <<>>
None == "None"
CreateBackupArgs == {"None", "True", "False"}
BackupDirs == {"backups", "backups2"}

\* os.path.basename: the last component of the path.
Basename(file_path) == file_path[Len(file_path)]

BackupPaths == {<<d, Basename(p) \o ".backup", s>> : d \in BackupDirs, p \in Paths, s \in 0..MaxSecond}

\* ------------------------------------------------------------------- state
VARIABLES
    files,              \* the filesystem: path -> content, or NoFile
    backups,            \* the backup directory: backup path -> content, or NoFile
    operation_history,  \* AIAgent.operation_history
    backup_dir,         \* AIAgent.backup_dir
    config,             \* ConfigManager._config['preferences']
    clock,              \* the wall clock at the last call, in whole seconds
    serial,             \* number of records appended so far (orders datetime.now() readings)
    performed,          \* every record appended, in order, while no undo or clear has run
    faults,             \* number of disturbances from outside the engine so far
    last                \* the last call and what it returned

vars == <<files, backups, operation_history, backup_dir, config, clock, serial, performed,
          faults, last>>

\* What is kept of the call an undo comes right after.
NoPrior ==
    [call |-> "none", path |-> NoPath, content |-> "", create_backup |-> FALSE,
     pre |-> NoFile, success |-> FALSE]

Prior(l) ==
    [call |-> l.call, path |-> l.path, content |-> l.content,
     create_backup |-> l.create_backup, pre |-> l.pre, success |-> l.success]

\* A call and its result: the method called (with the tool, its keyword
\* arguments and the handler reached, for execute_tool), the path and content
\* given, whether a snapshot was asked for, what the path held before the call
\* (pre), success or the error raised, the operation kind and backup path
\* returned (for an undo: those of the record popped, with its original_content
\* and timestamp), the parameter reported missing (for a write_file or
\* remove_file that raised: the step that raised), the call before an undo
\* (and, where the configuration changes at runtime, before a write_file or
\* remove_file), and
\* whether an exception left the call instead of a result (escaped: tracked
\* for execute_tool).  A result has the key 'success' iff success is TRUE and
\* the key 'error' iff error is not "".  results: the paths of the files a
\* search_files over the filesystem returned.
NoCall ==
    [call |-> "none", tool |-> "none", kwargs |-> {}, handler |-> "none", path |-> NoPath,
     content |-> "", create_backup |-> FALSE, pre |-> NoFile, success |-> FALSE,
     error |-> "", operation |-> "", backup_path |-> NoPath, original_content |-> "",
     popped |-> 0, missing |-> "", follows |-> NoPrior, escaped |-> FALSE,
     results |-> {}]

\* ConfigManager.get(key, default) on the preferences the engine reads.
ConfigGet(cfg, key) == cfg[key]

\* A slice that keeps the oldest k entries, lst[:k], instead of the newest.
NegSlice_Head(lst, k) == SubSeq(lst, 1, IF k < Len(lst) THEN k ELSE Len(lst))

\* lst[-k:] of Python for k >= 0: -0 is 0, so the slice starts at index 0.
NegSlice(lst, k) ==
    LET start == IF k = 0 THEN 0
                 ELSE IF Len(lst) - k > 0 THEN Len(lst) - k ELSE 0
    IN  SubSeq(lst, start + 1, Len(lst))

\* AIAgent._backup_file: the backup path returned and the backup directory after.
BackupFile(fs, bk, dir, file_path, second, copy_ok) ==
    IF fs[file_path] = NoFile
    THEN [backup_path |-> NoPath, store |-> bk]
    ELSE LET backup_path == <<dir, Basename(file_path) \o ".backup", second>>
         IN  IF copy_ok
             THEN [backup_path |-> backup_path,
                   store |-> [bk EXCEPT ![backup_path] = fs[file_path]]]
             ELSE [backup_path |-> NoPath, store |-> bk]

\* The dictionary _add_to_history appends.
OperationRecord(operation, file_path, backup_path, original_content, timestamp) ==
    [operation |-> operation, file_path |-> file_path, backup_path |-> backup_path,
     original_content |-> original_content, timestamp |-> timestamp]

\* AIAgent._add_to_history: the history after the append and the size limit.
\* An append that keeps using the max_history the engine was constructed
\* with.
AddToHistory_Cached(history, cfg, operation, file_path, backup_path, original_content, timestamp) ==
    LET appended == Append(history,
                           OperationRecord(operation, file_path, backup_path,
                                           original_content, timestamp))
    IN  IF Len(appended) > MaxHistory THEN NegSlice(appended, MaxHistory) ELSE appended

AddToHistory(history, cfg, operation, file_path, backup_path, original_content, timestamp) ==
    LET max_history == ConfigGet(cfg, "max_history")
        appended == Append(history,
                           OperationRecord(operation, file_path, backup_path,
                                           original_content, timestamp))
    IN  IF Len(appended) > max_history THEN NegSlice(appended, max_history) ELSE appended

\* performed follows the appends until the first successful undo or clear.
Tracking == Len(performed) = serial

\* create_backup = None takes the configured default.
EffectiveBackup(cfg, create_backup) ==
    IF create_backup = None THEN ConfigGet(cfg, "backup_enabled") ELSE create_backup = "True"

\* `x or ""` on an optional string.
OrEmpty(x) == IF x = None THEN "" ELSE x

Init ==
    /\ files \in {f \in [Paths -> {OldContent(p) : p \in Paths} \cup {NoFile}] :
                     \A p \in Paths : f[p] \in {OldContent(p), NoFile}}
    /\ backups = [b \in BackupPaths |-> NoFile]
    /\ operation_history = <<>>
    /\ backup_dir = "backups"
    /\ config \in [max_history : 0..MaxHistory, backup_enabled : BOOLEAN]
    /\ clock = 0
    /\ serial = 0
    /\ performed = <<>>
    /\ faults = 0
    /\ last = NoCall

\* AIAgent.write_file.  copy_ok: the snapshot copy succeeds.  vanished: another
\* process deletes the file between write_text and the path.exists() that
\* classifies the operation.
WriteFile(call, now, file_path, content, create_backup, copy_ok, vanished) ==
    /\ serial < MaxOps
    /\ LET do_backup == EffectiveBackup(config, create_backup)
           taken == files[file_path] # NoFile /\ do_backup
           b == IF taken THEN BackupFile(files, backups, backup_dir, file_path, now, copy_ok)
                ELSE [backup_path |-> NoPath, store |-> backups]
           original_content == IF taken THEN files[file_path] ELSE None
           written == [files EXCEPT ![file_path] = IF vanished THEN NoFile ELSE content]
           operation == IF written[file_path] # NoFile THEN "modify" ELSE "create"
       IN  /\ faults' = faults + (IF taken /\ ~copy_ok THEN 1 ELSE 0)
                             + (IF vanished THEN 1 ELSE 0)
           /\ faults' <= MaxFaults
           /\ backups' = b.store
           /\ files' = written
           /\ operation_history' =
                  AddToHistory(operation_history, config, operation, file_path,
                               b.backup_path, OrEmpty(original_content), serial + 1)
           /\ performed' = IF Tracking
                           THEN Append(performed,
                                       OperationRecord(operation, file_path, b.backup_path,
                                                       OrEmpty(original_content), serial + 1))
                           ELSE performed
           /\ last' = [call EXCEPT !.path = file_path, !.content = content,
                            !.create_backup = do_backup, !.pre = files[file_path],
                            !.success = TRUE, !.operation = operation,
                            !.backup_path = b.backup_path]
    /\ serial' = serial + 1
    /\ clock' = now
    /\ UNCHANGED <<backup_dir, config>>

\* write_file when a step after the snapshot raises: path.read_text (the file
\* does not decode as UTF-8), path.parent.mkdir, or path.write_text (the
\* file is read-only); the except clause re-raises as FileOperationError.
WriteFileRaises(call, now, file_path, content, create_backup, copy_ok, step) ==
    /\ LET do_backup == EffectiveBackup(config, create_backup)
           taken == files[file_path] # NoFile /\ do_backup
           b == IF taken THEN BackupFile(files, backups, backup_dir, file_path, now, copy_ok)
                ELSE [backup_path |-> NoPath, store |-> backups]
       IN  /\ step = "read_text" => taken
           /\ faults' = faults + 1 + (IF taken /\ ~copy_ok THEN 1 ELSE 0)
           /\ faults' <= MaxFaults
           /\ backups' = b.store
           /\ last' = [call EXCEPT !.path = file_path, !.content = content,
                            !.create_backup = do_backup, !.pre = files[file_path],
                            !.error = "Error writing file", !.missing = step]
    /\ clock' = now
    /\ UNCHANGED <<files, operation_history, backup_dir, config, serial, performed>>

\* remove_file on an existing file when a step after the snapshot raises:
\* path.read_text or path.unlink (the directory is read-only).
RemoveFileRaises(call, now, file_path, create_backup, copy_ok, step) ==
    /\ files[file_path] # NoFile
    /\ LET do_backup == EffectiveBackup(config, create_backup)
           b == IF do_backup
                THEN BackupFile(files, backups, backup_dir, file_path, now, copy_ok)
                ELSE [backup_path |-> NoPath, store |-> backups]
       IN  /\ step = "read_text" => do_backup
           /\ faults' = faults + 1 + (IF do_backup /\ ~copy_ok THEN 1 ELSE 0)
           /\ faults' <= MaxFaults
           /\ backups' = b.store
           /\ last' = [call EXCEPT !.path = file_path, !.create_backup = do_backup,
                            !.pre = files[file_path], !.error = "Error removing file",
                            !.missing = step]
    /\ clock' = now
    /\ UNCHANGED <<files, operation_history, backup_dir, config, serial, performed>>

\* A remove_file that reports success on a path that does not exist.
RemoveFile_Silent(call, now, file_path, create_backup, copy_ok) ==
    IF files[file_path] = NoFile
    THEN /\ last' = [call EXCEPT !.path = file_path, !.pre = NoFile,
                          !.success = TRUE,
                          !.operation = "remove"]
         /\ UNCHANGED <<files, backups, operation_history, backup_dir, config, clock,
                        serial, performed, faults>>
    ELSE /\ serial < MaxOps
         /\ LET do_backup == EffectiveBackup(config, create_backup)
                b == IF do_backup
                     THEN BackupFile(files, backups, backup_dir, file_path, now, copy_ok)
                     ELSE [backup_path |-> NoPath, store |-> backups]
                original_content == IF do_backup THEN files[file_path] ELSE None
            IN  /\ faults' = faults + (IF do_backup /\ ~copy_ok THEN 1 ELSE 0)
                /\ faults' <= MaxFaults
                /\ backups' = b.store
                /\ files' = [files EXCEPT ![file_path] = NoFile]
                /\ operation_history' =
                       AddToHistory(operation_history, config, "remove", file_path,
                                    b.backup_path, OrEmpty(original_content), serial + 1)
                /\ performed' = IF Tracking
                                THEN Append(performed,
                                            OperationRecord("remove", file_path, b.backup_path,
                                                            OrEmpty(original_content),
                                                            serial + 1))
                                ELSE performed
                /\ last' = [call EXCEPT !.path = file_path, !.create_backup = do_backup,
                                 !.pre = files[file_path], !.success = TRUE,
                                 !.operation = "remove", !.backup_path = b.backup_path]
         /\ serial' = serial + 1
         /\ clock' = now
         /\ UNCHANGED <<backup_dir, config>>

\* AIAgent.remove_file.
RemoveFile(call, now, file_path, create_backup, copy_ok) ==
    IF files[file_path] = NoFile
    THEN /\ last' = [call EXCEPT !.path = file_path, !.pre = NoFile,
                          !.error = "File not found"]
         /\ UNCHANGED <<files, backups, operation_history, backup_dir, config, clock,
                        serial, performed, faults>>
    ELSE /\ serial < MaxOps
         /\ LET do_backup == EffectiveBackup(config, create_backup)
                b == IF do_backup
                     THEN BackupFile(files, backups, backup_dir, file_path, now, copy_ok)
                     ELSE [backup_path |-> NoPath, store |-> backups]
                original_content == IF do_backup THEN files[file_path] ELSE None
            IN  /\ faults' = faults + (IF do_backup /\ ~copy_ok THEN 1 ELSE 0)
                /\ faults' <= MaxFaults
                /\ backups' = b.store
                /\ files' = [files EXCEPT ![file_path] = NoFile]
                /\ operation_history' =
                       AddToHistory(operation_history, config, "remove", file_path,
                                    b.backup_path, OrEmpty(original_content), serial + 1)
                /\ performed' = IF Tracking
                                THEN Append(performed,
                                            OperationRecord("remove", file_path, b.backup_path,
                                                            OrEmpty(original_content),
                                                            serial + 1))
                                ELSE performed
                /\ last' = [call EXCEPT !.path = file_path, !.create_backup = do_backup,
                                 !.pre = files[file_path], !.success = TRUE,
                                 !.operation = "remove", !.backup_path = b.backup_path]
         /\ serial' = serial + 1
         /\ clock' = now
         /\ UNCHANGED <<backup_dir, config>>

\* An undo without the branch for 'remove'.
Reverse_NoRemove(fs, bk, last_op) ==
    LET path == last_op.file_path
    IN  IF last_op.operation = "create"
        THEN IF fs[path] # NoFile THEN [fs EXCEPT ![path] = NoFile] ELSE fs
        ELSE IF last_op.operation = "modify"
        THEN IF last_op.backup_path # NoPath /\ bk[last_op.backup_path] # NoFile
             THEN [fs EXCEPT ![path] = bk[last_op.backup_path]]
             ELSE IF last_op.original_content # ""
             THEN [fs EXCEPT ![path] = last_op.original_content]
             ELSE fs
        ELSE fs

\* An undo that rewrites the prior content even when it is empty.
Reverse_RewriteEmpty(fs, bk, last_op) ==
    LET path == last_op.file_path
    IN  IF last_op.operation = "create"
        THEN IF fs[path] # NoFile THEN [fs EXCEPT ![path] = NoFile] ELSE fs
        ELSE IF last_op.backup_path # NoPath /\ bk[last_op.backup_path] # NoFile
             THEN [fs EXCEPT ![path] = bk[last_op.backup_path]]
             ELSE [fs EXCEPT ![path] = last_op.original_content]

\* An undo that prefers the record's prior content to its backup file.
Reverse_ContentFirst(fs, bk, last_op) ==
    LET path == last_op.file_path
    IN  IF last_op.operation = "create"
        THEN IF fs[path] # NoFile THEN [fs EXCEPT ![path] = NoFile] ELSE fs
        ELSE IF last_op.original_content # ""
             THEN [fs EXCEPT ![path] = last_op.original_content]
             ELSE IF last_op.backup_path # NoPath /\ bk[last_op.backup_path] # NoFile
             THEN [fs EXCEPT ![path] = bk[last_op.backup_path]]
             ELSE fs

\* An undo that restores the backup into every file of the same base name.
Reverse_AllNamesakes(fs, bk, last_op) ==
    LET path == last_op.file_path
    IN  IF last_op.operation = "create"
        THEN IF fs[path] # NoFile THEN [fs EXCEPT ![path] = NoFile] ELSE fs
        ELSE IF last_op.operation \in {"modify", "remove"}
        THEN IF last_op.backup_path # NoPath /\ bk[last_op.backup_path] # NoFile
             THEN [p \in Paths |-> IF Basename(p) = Basename(path)
                                   THEN bk[last_op.backup_path] ELSE fs[p]]
             ELSE IF last_op.original_content # ""
             THEN [fs EXCEPT ![path] = last_op.original_content]
             ELSE fs
        ELSE fs

\* The filesystem after undo_last_operation has reversed last_op.
Reverse(fs, bk, last_op) ==
    LET path == last_op.file_path
    IN  IF last_op.operation = "create"
        THEN IF fs[path] # NoFile THEN [fs EXCEPT ![path] = NoFile] ELSE fs
        ELSE IF last_op.operation \in {"modify", "remove"}
        THEN IF last_op.backup_path # NoPath /\ bk[last_op.backup_path] # NoFile
             THEN [fs EXCEPT ![path] = bk[last_op.backup_path]]
             ELSE IF last_op.original_content # ""
             THEN [fs EXCEPT ![path] = last_op.original_content]
             ELSE fs
        ELSE fs

\* An undo that takes the oldest record of the history instead of the newest.
PopAndReverse_Oldest(call) ==
    LET last_op == operation_history[1]
    IN  /\ operation_history' = SubSeq(operation_history, 2, Len(operation_history))
        /\ files' = Reverse(files, backups, last_op)
        /\ performed' = <<>>
        /\ last' = [call EXCEPT !.path = last_op.file_path,
                         !.pre = files[last_op.file_path], !.success = TRUE,
                         !.operation = last_op.operation,
                         !.backup_path = last_op.backup_path,
                         !.original_content = last_op.original_content,
                         !.popped = last_op.timestamp, !.follows = Prior(last)]
        /\ UNCHANGED <<backups, backup_dir, config, clock, serial, faults>>

\* undo_last_operation on a history that is not empty: pop the last record
\* and reverse it.
PopAndReverse(call) ==
    LET last_op == operation_history[Len(operation_history)]
    IN  /\ operation_history' = SubSeq(operation_history, 1, Len(operation_history) - 1)
        /\ files' = Reverse(files, backups, last_op)
        /\ performed' = <<>>
        /\ last' = [call EXCEPT !.path = last_op.file_path,
                         !.pre = files[last_op.file_path], !.success = TRUE,
                         !.operation = last_op.operation,
                         !.backup_path = last_op.backup_path,
                         !.original_content = last_op.original_content,
                         !.popped = last_op.timestamp, !.follows = Prior(last)]
        /\ UNCHANGED <<backups, backup_dir, config, clock, serial, faults>>

\* An undo that reports success when there is nothing to undo.
UndoLastOperation_Unchecked(call) ==
    IF operation_history = <<>>
    THEN /\ last' = [call EXCEPT !.success = TRUE, !.follows = Prior(last)]
         /\ UNCHANGED <<files, backups, operation_history, backup_dir, config, clock,
                        serial, performed, faults>>
    ELSE PopAndReverse(call)

\* AIAgent.undo_last_operation.
UndoLastOperation(call) ==
    IF operation_history = <<>>
    THEN /\ last' = [call EXCEPT !.error = "No operations to undo", !.follows = Prior(last)]
         /\ UNCHANGED <<files, backups, operation_history, backup_dir, config, clock,
                        serial, performed, faults>>
    ELSE PopAndReverse(call)

\* A clear that also deletes the backup files.
ClearOperationHistory_Purge ==
    /\ operation_history' = <<>>
    /\ backups' = [b \in BackupPaths |-> NoFile]
    /\ performed' = IF operation_history = <<>> THEN performed ELSE <<>>
    /\ last' = [NoCall EXCEPT !.call = "clear_operation_history", !.success = TRUE,
                              !.popped = Len(operation_history)]
    /\ UNCHANGED <<files, backup_dir, config, clock, serial, faults>>

\* AIAgent.clear_operation_history.
ClearOperationHistory ==
    /\ operation_history' = <<>>
    /\ performed' = IF operation_history = <<>> THEN performed ELSE <<>>
    /\ last' = [NoCall EXCEPT !.call = "clear_operation_history", !.success = TRUE,
                              !.popped = Len(operation_history)]
    /\ UNCHANGED <<files, backups, backup_dir, config, clock, serial, faults>>

\* datetime.now() at a call: the second of the previous call, or a later one.
Now == {t \in {clock, clock + 1} : t <= MaxSecond}

\* A backup file is deleted from the backup directory by its user.
BackupCleanup(backup_path) ==
    /\ backups[backup_path] # NoFile
    /\ faults < MaxFaults
    /\ faults' = faults + 1
    /\ backups' = [backups EXCEPT ![backup_path] = NoFile]
    /\ last' = NoCall
    /\ UNCHANGED <<files, operation_history, backup_dir, config, clock, serial, performed>>

\* ------------------------------------------------------------ the dispatcher
Param(name, required) == [name |-> name, required |-> required]

\* ToolsManager._register_tools: each tool's parameters, in the order of the
\* schema, and the handler bound to it.
Tools ==
    [fs_read      |-> [parameters |-> <<Param("path", TRUE), Param("lines", FALSE)>>,
                       function |-> "_fs_read"],
     fs_create    |-> [parameters |-> <<Param("path", TRUE), Param("content", FALSE),
                                        Param("prompt", FALSE), Param("file_type", FALSE),
                                        Param("backup", FALSE)>>,
                       function |-> "_fs_create"],
     fs_write     |-> [parameters |-> <<Param("path", TRUE), Param("content", TRUE),
                                        Param("backup", FALSE)>>,
                       function |-> "_fs_write"],
     fs_search    |-> [parameters |-> <<Param("directory", TRUE), Param("pattern", FALSE),
                                        Param("extension", FALSE), Param("content", FALSE)>>,
                       function |-> "_fs_search"],
     fs_remove    |-> [parameters |-> <<Param("path", TRUE), Param("backup", FALSE)>>,
                       function |-> "_fs_remove"],
     fs_undo      |-> [parameters |-> <<>>, function |-> "_fs_undo"],
     code_analyze |-> [parameters |-> <<Param("path", TRUE), Param("detailed", FALSE)>>,
                       function |-> "_code_analyze"],
     code_modify  |-> [parameters |-> <<Param("path", TRUE), Param("instruction", TRUE),
                                        Param("backup", FALSE)>>,
                       function |-> "_code_modify"],
     code_review  |-> [parameters |-> <<Param("path", TRUE), Param("focus", FALSE)>>,
                       function |-> "_code_review"],
     web_fetch    |-> [parameters |-> <<Param("url", TRUE), Param("extract_text", FALSE),
                                        Param("save_to", FALSE)>>,
                       function |-> "_web_fetch"],
     web_api      |-> [parameters |-> <<Param("url", TRUE), Param("method", FALSE),
                                        Param("data", FALSE), Param("headers", FALSE)>>,
                       function |-> "_web_api"],
     shell_exec   |-> [parameters |-> <<Param("command", TRUE), Param("cwd", FALSE),
                                        Param("timeout", FALSE)>>,
                       function |-> "_shell_exec"],
     env_info     |-> [parameters |-> <<>>, function |-> "_env_info"],
     ai_chat      |-> [parameters |-> <<Param("prompt", TRUE), Param("system", FALSE),
                                        Param("model", FALSE), Param("temperature", FALSE)>>,
                       function |-> "_ai_chat"],
     ai_summarize |-> [parameters |-> <<Param("content", FALSE), Param("file_path", FALSE),
                                        Param("length", FALSE)>>,
                       function |-> "_ai_summarize"]]

ToolNames == DOMAIN Tools
ParamNames(tool_name) ==
    {Tools[tool_name].parameters[i].name : i \in DOMAIN Tools[tool_name].parameters}

\* A validation that looks at the first parameter of the schema only.
MissingRequired_FirstOnly(tool_name, kwargs) ==
    LET parameters == Tools[tool_name].parameters
    IN  {i \in DOMAIN parameters :
            i = 1 /\ parameters[i].required /\ parameters[i].name \notin kwargs}

\* The validation loop of execute_tool: the positions, in schema order, of the
\* required parameters that kwargs lacks.
MissingRequired(tool_name, kwargs) ==
    LET parameters == Tools[tool_name].parameters
    IN  {i \in DOMAIN parameters : parameters[i].required /\ parameters[i].name \notin kwargs}

\* The smallest element of a non-empty set of positions.
First(S) == CHOOSE i \in S : \A j \in S : i <= j

\* The backup argument a handler passes on: its keyword default is True.
BackupArg(kwargs, backup) ==
    IF "backup" \in kwargs THEN (IF backup THEN "True" ELSE "False") ELSE "True"

\* A handler whose work is done by a collaborator (network, model, shell, or
\* a read of the filesystem): it leaves the engine's state alone.
Collaborator(call, ok) ==
    /\ last' = IF ok THEN [call EXCEPT !.success = TRUE]
               ELSE [call EXCEPT !.error = "collaborator failed"]
    /\ UNCHANGED <<files, backups, operation_history, backup_dir, config, clock, serial,
                   performed, faults>>

\* ToolsManager._web_fetch.  ok: the request succeeds; extract_text: the text
\* of an HTML response is asked for; bs4: BeautifulSoup can be imported.  The
\* file save_to names lies outside Paths.
WebFetch(call, ok, extract_text, bs4) ==
    /\ last' = IF ~ok THEN [call EXCEPT !.error = "request failed"]
               ELSE IF extract_text /\ ~bs4
               THEN [call EXCEPT !.success = TRUE,
                                 !.error = "BeautifulSoup not available for text extraction"]
               ELSE [call EXCEPT !.success = TRUE]
    /\ UNCHANGED <<files, backups, operation_history, backup_dir, config, clock, serial,
                   performed, faults>>

\* The keyword names a tool's handler accepts: each handler's signature names
\* exactly the parameters of its schema.
Accepts(tool_name) == ParamNames(tool_name)

\* A dispatcher that lets the handler's exception through to its caller.
HandlerRaises_Propagates(call) ==
    /\ last' = [call EXCEPT !.escaped = TRUE]
    /\ UNCHANGED <<files, backups, operation_history, backup_dir, config, clock, serial,
                   performed, faults>>

\* The except clause of execute_tool: the call of the handler raised (a
\* keyword the handler does not accept is a TypeError).
HandlerRaises(call) ==
    /\ last' = [call EXCEPT !.error = "Tool execution failed"]
    /\ UNCHANGED <<files, backups, operation_history, backup_dir, config, clock, serial,
                   performed, faults>>

\* A help lookup that does not look the name up in the registry first.
GetToolHelp_Unchecked(tool_name) ==
    /\ last' = [NoCall EXCEPT !.call = "get_tool_help", !.tool = tool_name]
    /\ UNCHANGED <<files, backups, operation_history, backup_dir, config, clock, serial,
                   performed, faults>>

\* ToolsManager.get_tool_help: the schema of a registered tool (a result with
\* neither 'success' nor 'error'), or a failure.
GetToolHelp(tool_name) ==
    /\ last' = IF tool_name \notin ToolNames
               THEN [NoCall EXCEPT !.call = "get_tool_help", !.tool = tool_name,
                                   !.error = "Tool not found"]
               ELSE [NoCall EXCEPT !.call = "get_tool_help", !.tool = tool_name,
                                   !.kwargs = ParamNames(tool_name)]
    /\ UNCHANGED <<files, backups, operation_history, backup_dir, config, clock, serial,
                   performed, faults>>

\* ToolsManager.execute_tool with kwargs = the keys given and their values.
\* ok: the collaborator the handler calls (model, network, shell) succeeds;
\* generated: the content a model call returns; bs4: BeautifulSoup can be
\* imported.
ExecuteTool(tool_name, kwargs, now, path, content, backup, ok, generated, bs4) ==
    LET call == [NoCall EXCEPT !.call = "execute_tool", !.tool = tool_name,
                               !.kwargs = kwargs]
    IN  IF tool_name \notin ToolNames
        THEN /\ last' = [call EXCEPT !.error = "Tool not found"]
             /\ UNCHANGED <<files, backups, operation_history, backup_dir, config, clock,
                            serial, performed, faults>>
        ELSE IF MissingRequired(tool_name, kwargs) # {}
        THEN /\ last' = [call EXCEPT
                           !.error = "Required parameter missing",
                           !.missing = Tools[tool_name].parameters[
                                           First(MissingRequired(tool_name, kwargs))].name]
             /\ UNCHANGED <<files, backups, operation_history, backup_dir, config, clock,
                            serial, performed, faults>>
        ELSE IF ~(kwargs \subseteq Accepts(tool_name))
        THEN HandlerRaises(call)
        ELSE LET function == Tools[tool_name].function
                 handler == [call EXCEPT !.handler = function]
             IN  CASE function = "_fs_write" ->
                        WriteFile(handler, now, path, content, BackupArg(kwargs, backup),
                                  TRUE, FALSE)
                   [] function = "_fs_create" ->
                        IF "prompt" \in kwargs /\ ("content" \notin kwargs \/ content = "")
                        THEN IF ok
                             THEN WriteFile(handler, now, path, generated,
                                            BackupArg(kwargs, backup), TRUE, FALSE)
                             ELSE Collaborator(handler, FALSE)
                        ELSE WriteFile(handler, now, path,
                                       IF "content" \in kwargs THEN content ELSE "",
                                       BackupArg(kwargs, backup), TRUE, FALSE)
                   [] function = "_code_modify" ->
                        IF files[path] = NoFile
                        THEN /\ last' = [handler EXCEPT !.path = path,
                                                        !.error = "File not found"]
                             /\ UNCHANGED <<files, backups, operation_history, backup_dir,
                                            config, clock, serial, performed, faults>>
                        ELSE IF ok
                             THEN WriteFile(handler, now, path, generated,
                                            BackupArg(kwargs, backup), TRUE, FALSE)
                             ELSE Collaborator(handler, FALSE)
                   [] function = "_fs_remove" ->
                        RemoveFile(handler, now, path, BackupArg(kwargs, backup), TRUE)
                   [] function = "_fs_undo" -> UndoLastOperation(handler)
                   [] function = "_web_fetch" ->
                        WebFetch(handler, ok, "extract_text" \in kwargs, bs4)
                   [] OTHER -> Collaborator(handler, ok)

\* The handlers that call write_file or remove_file.
Mutating == {"_fs_write", "_fs_create", "_code_modify", "_fs_remove"}

\* The handler asks the model for the content it writes.
Generates(function, kwargs, content) ==
    \/ function = "_code_modify"
    \/ function = "_fs_create" /\ "prompt" \in kwargs
                               /\ ("content" \notin kwargs \/ content = "")

\* The handler calls a collaborator that can fail (model, network, shell, or
\* a read of a file that may be missing).
External(function, kwargs, content) ==
    \/ Generates(function, kwargs, content)
    \/ function \in {"_fs_read", "_fs_search", "_code_analyze", "_code_review", "_web_fetch",
                     "_web_api", "_shell_exec", "_env_info", "_ai_chat", "_ai_summarize"}

\* The names of the parameters the schema of a tool marks required.
RequiredNames(tool_name) ==
    {Tools[tool_name].parameters[i].name :
        i \in {j \in DOMAIN Tools[tool_name].parameters :
                  Tools[tool_name].parameters[j].required}}

\* The keyword arguments of the calls explored.  With every required
\* parameter present: each combination of the optional parameters a file
\* handler reads, and all optional parameters at once.  With required
\* parameters missing: each proper subset of the required ones, alone and with
\* all optional parameters.  And a keyword no handler accepts, alone and with
\* the required parameters.
Kwargs(tool_name) ==
    IF tool_name \in ToolNames
    THEN LET required == RequiredNames(tool_name)
             optional == ParamNames(tool_name) \ required
             read == optional \cap {"content", "prompt", "backup"}
         IN  {required \cup o : o \in (SUBSET read) \cup {optional}}
                 \cup {k \cup o : k \in (SUBSET required) \ {required},
                                  o \in {{}, optional}}
                 \cup {{"verbose"}, required \cup {"verbose"}}
    ELSE {{}}

Dispatch ==
    \E tool_name \in ToolNames \cup {"no_such_tool"} :
      \E kwargs \in Kwargs(tool_name) :
        LET function == IF tool_name \in ToolNames THEN Tools[tool_name].function ELSE "none"
            runs == /\ tool_name \in ToolNames
                    /\ MissingRequired(tool_name, kwargs) = {}
                    /\ kwargs \subseteq Accepts(tool_name)
            writes == runs /\ function \in Mutating
        IN  /\ writes => serial < MaxToolOps
            /\ \E now \in (IF writes THEN Now ELSE {clock}),
                  path \in (IF runs /\ "path" \in kwargs THEN ToolPaths ELSE {NoPath}),
                  content \in (IF writes /\ "content" \in kwargs THEN Contents ELSE {""}),
                  backup \in (IF writes /\ "backup" \in kwargs THEN BOOLEAN ELSE {TRUE}) :
                 \E ok \in (IF runs /\ External(function, kwargs, content)
                            THEN BOOLEAN ELSE {TRUE}) :
                   \E generated \in (IF runs /\ ok /\ Generates(function, kwargs, content)
                                     THEN Contents ELSE {""}),
                      bs4 \in (IF runs /\ ok /\ function = "_web_fetch"
                                  /\ "extract_text" \in kwargs
                               THEN BOOLEAN ELSE {TRUE}) :
                     ExecuteTool(tool_name, kwargs, now, path, content, backup, ok,
                                 generated, bs4)

Next ==
    \/ \E now \in Now, p \in Paths, c \in Contents, cb \in CreateBackupArgs :
           WriteFile([NoCall EXCEPT !.call = "write_file"], now, p, c, cb, TRUE, FALSE)
    \/ \E now \in Now, p \in Paths, cb \in CreateBackupArgs :
           RemoveFile([NoCall EXCEPT !.call = "remove_file"], now, p, cb, TRUE)
    \/ UndoLastOperation([NoCall EXCEPT !.call = "undo_last_operation"])
    \/ ClearOperationHistory

\* The engine called directly, on a filesystem nothing else touches.
Spec == Init /\ [][Next]_vars

\* The engine called through the dispatcher.
InitTools ==
    /\ Init
    /\ \A p \in Paths \ ToolPaths : files[p] = NoFile
    /\ config.max_history = MaxHistory

NextTools ==
    \/ Dispatch
    \/ \E tool_name \in ToolNames \cup {"no_such_tool"} : GetToolHelp(tool_name)
    \/ ClearOperationHistory

SpecTools == InitTools /\ [][NextTools]_vars

\* The engine on a filesystem that other processes and its user also touch.
InitEnv ==
    /\ Init
    /\ config = [max_history |-> MaxHistory, backup_enabled |-> TRUE]

NextEnv ==
    \/ \E now \in Now, p \in Paths, c \in Contents, cb \in {"True", "False"},
          copy_ok \in BOOLEAN, vanished \in BOOLEAN :
           WriteFile([NoCall EXCEPT !.call = "write_file"], now, p, c, cb, copy_ok, vanished)
    \/ \E now \in Now, p \in Paths, cb \in {"True", "False"}, copy_ok \in BOOLEAN :
           RemoveFile([NoCall EXCEPT !.call = "remove_file"], now, p, cb, copy_ok)
    \/ UndoLastOperation([NoCall EXCEPT !.call = "undo_last_operation"])
    \/ \E b \in BackupPaths : BackupCleanup(b)

SpecEnv == InitEnv /\ [][NextEnv]_vars

\* ConfigManager.set on a preference: the value is changed in the
\* configuration object the engine holds.  Only changes are taken.
ConfigSet(key, value) ==
    /\ config[key] # value
    /\ config' = [config EXCEPT ![key] = value]
    /\ last' = [NoCall EXCEPT !.call = "set", !.path = <<"preferences", key>>,
                              !.success = TRUE]
    /\ UNCHANGED <<files, backups, operation_history, backup_dir, clock, serial,
                   performed, faults>>

\* A constructor that takes over the history of the engine before it.
NewEngine_Reloads ==
    /\ backup_dir' = ConfigGet(config, "backup_directory")
    /\ last' = [NoCall EXCEPT !.call = "__init__", !.success = TRUE]
    /\ UNCHANGED <<files, backups, operation_history, config, clock, serial, performed,
                   faults>>

\* AIAgent.__init__ on the configuration, in a new process: an empty
\* history, and the backup directory of the configuration.
NewEngine ==
    /\ operation_history' = <<>>
    /\ backup_dir' = ConfigGet(config, "backup_directory")
    /\ performed' = IF operation_history = <<>> THEN performed ELSE <<>>
    /\ last' = [NoCall EXCEPT !.call = "__init__", !.success = TRUE]
    /\ UNCHANGED <<files, backups, config, clock, serial, faults>>

\* The engine as main() constructs it, on the default backup directory.
InitRuntime ==
    /\ files \in {f \in [Paths -> {OldContent(p) : p \in Paths} \cup {NoFile}] :
                     \A p \in Paths : f[p] \in {OldContent(p), NoFile}}
    /\ backups = [b \in BackupPaths |-> NoFile]
    /\ operation_history = <<>>
    /\ config = [max_history |-> MaxHistory, backup_enabled |-> TRUE,
                 backup_directory |-> "backups"]
    /\ backup_dir = ConfigGet(config, "backup_directory")
    /\ clock = 0
    /\ serial = 0
    /\ performed = <<>>
    /\ faults = 0
    /\ last = NoCall

\* The engine with its configuration changed between calls and with new
\* engines constructed on the same files.
NextRuntime ==
    \/ \E now \in Now, p \in Paths :
           WriteFile([NoCall EXCEPT !.call = "write_file", !.follows = Prior(last)],
                     now, p, "v1", None, TRUE, FALSE)
    \/ \E now \in Now, p \in Paths :
           RemoveFile([NoCall EXCEPT !.call = "remove_file", !.follows = Prior(last)],
                      now, p, None, TRUE)
    \/ UndoLastOperation([NoCall EXCEPT !.call = "undo_last_operation"])
    \/ \E m \in 1..MaxHistory : ConfigSet("max_history", m)
    \/ \E d \in BackupDirs : ConfigSet("backup_directory", d)
    \/ NewEngine

SpecRuntime == InitRuntime /\ [][NextRuntime]_vars

\* Two engine processes on the same files and backup directory.  Here a file
\* is the sequence of its characters, Absent where there is none, and `last`
\* holds, for each engine, where it is in write_file (pc), the arguments and
\* locals of the call and the engine's own operation_history, and the engine
\* whose write step came last (writer, 0 for none).
Engines == {1, 2}
Absent == <<"<no file>">>
OldText == <<"o", "l", "d">>
RaceContents == {<<"v", "1">>, <<"x">>}

IdleEngine ==
    [pc |-> "idle", file_path |-> NoPath, content |-> <<>>, create_backup |-> FALSE,
     backup_path |-> NoPath, original_content |-> <<>>, success |-> FALSE,
     operation_history |-> <<>>]

InitRace ==
    /\ files \in [Paths -> {Absent, OldText}]
    /\ backups = [b \in BackupPaths |-> Absent]
    /\ operation_history = <<>>
    /\ config = [max_history |-> MaxHistory, backup_enabled |-> TRUE]
    /\ backup_dir = "backups"
    /\ clock = 0
    /\ serial = 0
    /\ performed = <<>>
    /\ faults = 0
    /\ last = [call |-> "write_file", engines |-> [e \in Engines |-> IdleEngine],
               writer |-> 0]

\* The step of engine e: its state and the files and backups after it.
EngineStep(e, state, fs, bk, writer) ==
    /\ last' = [last EXCEPT !.engines[e] = state, !.writer = writer]
    /\ files' = fs
    /\ backups' = bk
    /\ UNCHANGED <<operation_history, backup_dir, config, clock, performed, faults>>

\* write_file up to `if path.exists() and create_backup`.
WriteFile_Exists(e, file_path, content, create_backup) ==
    LET do_backup == EffectiveBackup(config, create_backup)
    IN  /\ last.engines[e].pc = "idle"
        /\ serial < MaxOps
        /\ serial' = serial + 1
        /\ EngineStep(e, [last.engines[e] EXCEPT
                              !.pc = IF files[file_path] # Absent /\ do_backup
                                     THEN "snapshot" ELSE "open",
                              !.file_path = file_path, !.content = content,
                              !.create_backup = do_backup, !.backup_path = NoPath,
                              !.original_content = <<>>, !.success = FALSE],
                      files, backups, last.writer)

\* backup_path = self._backup_file(str(path)): a copy of what the file holds
\* now.
WriteFile_Snapshot(e) ==
    LET me == last.engines[e]
        backup_path == <<backup_dir, Basename(me.file_path) \o ".backup", clock>>
    IN  /\ me.pc = "snapshot"
        /\ EngineStep(e, [me EXCEPT !.pc = "read", !.backup_path = backup_path],
                      files, [backups EXCEPT ![backup_path] = files[me.file_path]],
                      last.writer)
        /\ UNCHANGED serial

\* original_content = path.read_text(encoding='utf-8')
WriteFile_ReadOriginal(e) ==
    LET me == last.engines[e]
    IN  /\ me.pc = "read"
        /\ EngineStep(e, [me EXCEPT !.pc = "open",
                                    !.original_content = files[me.file_path]],
                      files, backups, last.writer)
        /\ UNCHANGED serial

\* path.write_text, first half: open(path, 'w') creates or truncates the
\* file.
WriteFile_Open(e) ==
    LET me == last.engines[e]
    IN  /\ me.pc = "open"
        /\ EngineStep(e, [me EXCEPT !.pc = "write"],
                      [files EXCEPT ![me.file_path] = <<>>], backups, last.writer)
        /\ UNCHANGED serial

\* write(2) of data at offset 0 of a file that holds `held`: the bytes beyond
\* the data stay.
Overwrite(held, data) == data \o SubSeq(held, Len(data) + 1, Len(held))

\* path.write_text, second half: the content goes out at the descriptor's
\* offset 0 when the file is closed.
WriteFile_Write(e) ==
    LET me == last.engines[e]
    IN  /\ me.pc = "write"
        /\ EngineStep(e, [me EXCEPT !.pc = "record"],
                      [files EXCEPT ![me.file_path] = Overwrite(@, me.content)],
                      backups, e)
        /\ UNCHANGED serial

\* write_file from `operation = ...` to the return: the record in the
\* engine's own history and the result.
WriteFile_Record(e) ==
    LET me == last.engines[e]
        operation == IF files[me.file_path] # Absent THEN "modify" ELSE "create"
    IN  /\ me.pc = "record"
        /\ EngineStep(e, [me EXCEPT
                              !.pc = "idle", !.success = TRUE,
                              !.operation_history =
                                  AddToHistory(@, config, operation, me.file_path,
                                               me.backup_path, me.original_content,
                                               serial)],
                      files, backups, last.writer)
        /\ UNCHANGED serial

NextRace ==
    \/ \E e \in Engines, p \in Paths, c \in RaceContents, cb \in {"True", "False"} :
           WriteFile_Exists(e, p, c, cb)
    \/ \E e \in Engines : WriteFile_Snapshot(e)
    \/ \E e \in Engines : WriteFile_ReadOriginal(e)
    \/ \E e \in Engines : WriteFile_Open(e)
    \/ \E e \in Engines : WriteFile_Write(e)
    \/ \E e \in Engines : WriteFile_Record(e)

SpecRace == InitRace /\ [][NextRace]_vars

\* A read_file that notes the read in the operation history.
ReadFile_Recorded(call, file_path) ==
    /\ files[file_path] # NoFile
    /\ operation_history' =
           Append(operation_history,
                  OperationRecord("read", file_path, NoPath, "", serial))
    /\ last' = [call EXCEPT !.path = file_path, !.pre = files[file_path],
                            !.content = files[file_path], !.success = TRUE]
    /\ UNCHANGED <<files, backups, backup_dir, config, clock, serial, performed, faults>>

\* AIAgent.read_file: the content of the file, or 'File not found'.
ReadFile(call, file_path) ==
    /\ last' = IF files[file_path] = NoFile
               THEN [call EXCEPT !.path = file_path, !.error = "File not found"]
               ELSE [call EXCEPT !.path = file_path, !.pre = files[file_path],
                                 !.content = files[file_path], !.success = TRUE]
    /\ UNCHANGED <<files, backups, operation_history, backup_dir, config, clock, serial,
                   performed, faults>>

\* The directories search_files is called on: those of Paths and one that
\* holds no file.
SearchDirs == {p[1] : p \in Paths} \cup {"d3"}

\* AIAgent.search_files without filters, over the filesystem: the files under
\* the directory, or 'Directory not found'.  dir_exists: a directory that
\* holds no file exists all the same.
SearchDirectory(call, directory, dir_exists) ==
    LET under == {p \in Paths : p[1] = directory /\ files[p] # NoFile}
    IN  /\ last' = IF under = {} /\ ~dir_exists
                   THEN [call EXCEPT !.path = <<directory>>,
                                     !.error = "Directory not found"]
                   ELSE [call EXCEPT !.path = <<directory>>, !.success = TRUE,
                                     !.results = under]
        /\ UNCHANGED <<files, backups, operation_history, backup_dir, config, clock,
                       serial, performed, faults>>

\* The engine's reads among its writes.
NextPure ==
    \/ \E now \in Now, p \in Paths, c \in Contents, cb \in {"True", "False"} :
           WriteFile([NoCall EXCEPT !.call = "write_file"], now, p, c, cb, TRUE, FALSE)
    \/ \E now \in Now, p \in Paths, cb \in {"True", "False"} :
           RemoveFile([NoCall EXCEPT !.call = "remove_file"], now, p, cb, TRUE)
    \/ UndoLastOperation([NoCall EXCEPT !.call = "undo_last_operation"])
    \/ \E p \in Paths : ReadFile([NoCall EXCEPT !.call = "read_file"], p)
    \/ \E d \in SearchDirs, dir_exists \in BOOLEAN :
           SearchDirectory([NoCall EXCEPT !.call = "search_files"], d, dir_exists)

SpecPure == InitEnv /\ [][NextPure]_vars

\* The engine on files and directories its calls can fail on: a file that
\* does not decode or is read-only, a directory that cannot be written.
\* undo_last_operation whose reversing step raises (the unlink of a created
\* file, the copy from the backup, or the rewrite of the prior content): the
\* record was popped before, and the error is re-raised as
\* FileOperationError.
UndoRaises(call, step) ==
    /\ operation_history # <<>>
    /\ LET last_op == operation_history[Len(operation_history)]
           restores == last_op.operation \in {"modify", "remove"}
           from_backup == /\ last_op.backup_path # NoPath
                          /\ backups[last_op.backup_path] # NoFile
       IN  /\ step = "unlink"
                  => last_op.operation = "create" /\ files[last_op.file_path] # NoFile
           /\ step = "copy2" => restores /\ from_backup
           /\ step = "write_text"
                  => restores /\ ~from_backup /\ last_op.original_content # ""
           /\ operation_history' = SubSeq(operation_history, 1, Len(operation_history) - 1)
           /\ last' = [call EXCEPT !.path = last_op.file_path,
                            !.pre = files[last_op.file_path],
                            !.error = "Error undoing operation", !.missing = step,
                            !.operation = last_op.operation,
                            !.backup_path = last_op.backup_path,
                            !.original_content = last_op.original_content,
                            !.popped = last_op.timestamp, !.follows = Prior(last)]
    /\ faults < MaxFaults
    /\ faults' = faults + 1
    /\ performed' = <<>>
    /\ UNCHANGED <<files, backups, backup_dir, config, clock, serial>>

NextFail ==
    \/ \E now \in Now, p \in Paths, c \in Contents, cb \in {"True", "False"} :
           WriteFile([NoCall EXCEPT !.call = "write_file"], now, p, c, cb, TRUE, FALSE)
    \/ \E now \in Now, p \in Paths, cb \in {"True", "False"} :
           RemoveFile([NoCall EXCEPT !.call = "remove_file"], now, p, cb, TRUE)
    \/ \E now \in Now, p \in Paths, c \in Contents, cb \in {"True", "False"},
          copy_ok \in BOOLEAN, step \in {"read_text", "mkdir", "write_text"} :
           WriteFileRaises([NoCall EXCEPT !.call = "write_file"], now, p, c, cb, copy_ok, step)
    \/ \E now \in Now, p \in Paths, cb \in {"True", "False"},
          copy_ok \in BOOLEAN, step \in {"read_text", "unlink"} :
           RemoveFileRaises([NoCall EXCEPT !.call = "remove_file"], now, p, cb, copy_ok, step)
    \/ UndoLastOperation([NoCall EXCEPT !.call = "undo_last_operation"])
    \/ \E step \in {"unlink", "copy2", "write_text"} :
           UndoRaises([NoCall EXCEPT !.call = "undo_last_operation"], step)

SpecFail == InitEnv /\ [][NextFail]_vars

\* --------------------------------------------------------------- search_files
\* matches[:5]: the number of matches search_files reports the lines of.
MatchLinesCap == 5

\* A text is the sequence of its characters.
Chars == {"c", "x", "\n"}
Texts == UNION {[1..n -> Chars] : n \in 0..MaxTextLen}
ContentPatterns == {"c", "x"}

\* The files under the searched directory, in the order rglob yields them:
\* one of any text, and one that is empty, holds one "c", or does not decode
\* as UTF-8.
Directories ==
    {<<[filename |-> "a.py", decodable |-> TRUE, content |-> t], second>> :
        t \in Texts,
        second \in {[filename |-> "b.py", decodable |-> TRUE, content |-> <<>>],
                    [filename |-> "b.py", decodable |-> TRUE, content |-> <<"c">>],
                    [filename |-> "b.py", decodable |-> FALSE, content |-> <<>>]}}

\* re.finditer for a pattern of one literal character: the start offsets
\* (from 0) of the matches at or after position from, in order.
RECURSIVE FindIter(_, _, _)
FindIter(content, pattern, from) ==
    IF from > Len(content) THEN <<>>
    ELSE IF content[from] = pattern
         THEN <<from - 1>> \o FindIter(content, pattern, from + 1)
         ELSE FindIter(content, pattern, from + 1)

\* content[:n].count('\n')
RECURSIVE CountNewlines(_, _)
CountNewlines(content, n) ==
    IF n = 0 THEN 0
    ELSE CountNewlines(content, n - 1) + (IF content[n] = "\n" THEN 1 ELSE 0)

\* len(content.split('\n'))
NumLines(content) == CountNewlines(content, Len(content)) + 1

\* A slice that does not cut: seq[:] instead of seq[:k].
Prefix_Whole(seq, k) == seq

\* seq[:k]
Prefix(seq, k) == SubSeq(seq, 1, IF k < Len(seq) THEN k ELSE Len(seq))

\* The match_lines of a file (without line_content): one entry for each of
\* the first matches, if its line number is within the lines of the file.
MatchLines(content, matches) ==
    LET shown == Prefix(matches, MatchLinesCap)
        entries == [k \in 1..Len(shown) |->
                       [line_number |-> CountNewlines(content, shown[k]) + 1,
                        match_text |-> content[shown[k] + 1]]]
    IN  SelectSeq(entries, LAMBDA e : e.line_number <= NumLines(content))

\* The results search_files collects over the files of the directory, for a
\* content pattern that is not empty and no other filter.
RECURSIVE SearchFiles(_, _)
SearchFiles(directory, content_pattern) ==
    IF directory = <<>> THEN <<>>
    ELSE LET file == Head(directory)
             matches == FindIter(file.content, content_pattern, 1)
         IN  (IF file.decodable /\ matches # <<>>
              THEN <<[filename |-> file.filename,
                      content_matches |-> Len(matches),
                      match_lines |-> MatchLines(file.content, matches)]>>
              ELSE <<>>)
             \o SearchFiles(Tail(directory), content_pattern)

\* A call of search_files: the directory it is about to walk and the pattern.
SearchCall(directory, content_pattern) ==
    [call |-> "none", directory |-> directory, content_pattern |-> content_pattern,
     success |-> FALSE, results |-> <<>>]

InitSearch ==
    /\ files = [p \in Paths |-> NoFile]
    /\ backups = [b \in BackupPaths |-> NoFile]
    /\ operation_history = <<>>
    /\ backup_dir = "backups"
    /\ config = [max_history |-> MaxHistory, backup_enabled |-> TRUE]
    /\ clock = 0
    /\ serial = 0
    /\ performed = <<>>
    /\ faults = 0
    /\ last \in {SearchCall(d, c) : d \in Directories, c \in ContentPatterns}

\* AIAgent.search_files on the directory and pattern of the call.
NextSearch ==
    /\ last.call = "none"
    /\ last' = [last EXCEPT !.call = "search_files", !.success = TRUE,
                            !.results = SearchFiles(last.directory, last.content_pattern)]
    /\ UNCHANGED <<files, backups, operation_history, backup_dir, config, clock, serial,
                   performed, faults>>

SpecSearch == InitSearch /\ [][NextSearch]_vars

\* A caller that writes and removes for a while, then calls
\* undo_last_operation and nothing else, again and again.
NextDrain ==
    \/ /\ last.call # "undo_last_operation"
       /\ \E now \in Now, p \in Paths, c \in Contents, cb \in CreateBackupArgs :
              WriteFile([NoCall EXCEPT !.call = "write_file"], now, p, c, cb, TRUE, FALSE)
    \/ /\ last.call # "undo_last_operation"
       /\ \E now \in Now, p \in Paths, cb \in CreateBackupArgs :
              RemoveFile([NoCall EXCEPT !.call = "remove_file"], now, p, cb, TRUE)
    \/ UndoLastOperation([NoCall EXCEPT !.call = "undo_last_operation"])

\* Every undo_last_operation returns (it has no loop and waits for nothing),
\* so the caller's next call takes place.
SpecDrain ==
    /\ Init
    /\ [][NextDrain]_vars
    /\ WF_vars(UndoLastOperation([NoCall EXCEPT !.call = "undo_last_operation"]))

\* ------------------------------------------------------------------ claims
Top(history) == history[Len(history)]
Min(a, b) == IF a < b THEN a ELSE b
Undone == last.call = "undo_last_operation"
\* The undo came right after this successful engine call.
RightAfter(method) == Undone /\ last.follows.call = method /\ last.follows.success

\* C1: a successful write_file with backups enabled, immediately followed by
\* undo_last_operation, leaves the path as it was before the write: absent if
\* it was absent, with the same content if it existed.  (Stated for a history
\* that keeps records, max_history >= 1.)
C1_RoundTripUndo ==
    (RightAfter("write_file") /\ last.follows.create_backup /\ config.max_history >= 1)
        => (last.success /\ files[last.follows.path] = last.follows.pre)

\* C2: an undo that pops the Modify record of a backup-enabled write to an
\* existing file leaves the file with the content it held right before that
\* write (the content the write read into the record as original_content),
\* also when several such writes were backed up within one second.  (Stated
\* for a history that keeps records, max_history >= 1.)
C2_ModifyUndoRestores ==
    (Undone /\ last.success /\ last.operation = "modify" /\ last.backup_path # NoPath
     /\ config.max_history >= 1)
        => files[last.path] = last.original_content

C4_ValidateThenInvoke ==
    [][(last'.call = "execute_tool"
        /\ last'.tool \in ToolNames
        /\ ~(RequiredNames(last'.tool) \subseteq last'.kwargs))
       => /\ ~last'.success
          /\ last'.error = "Required parameter missing"
          /\ last'.missing \in RequiredNames(last'.tool) \ last'.kwargs
          /\ last'.handler = "none"
          /\ UNCHANGED <<files, backups, operation_history>>]_vars

C4_Witness ==
    /\ last.call = "execute_tool"
    /\ last.tool = "fs_write"
    /\ last.kwargs = {"path", "backup"}
    /\ last.error = "Required parameter missing"
    /\ last.missing = "content"
    /\ last.handler = "none"
    /\ operation_history # <<>>

\* C5: the history never holds more than max_history records, for every
\* max_history >= 0.
C5_HistoryBound == Len(operation_history) <= config.max_history

C7_EmptyUndo ==
    [][(operation_history = <<>> /\ last'.call = "undo_last_operation")
       => /\ ~last'.success
          /\ last'.error = "No operations to undo"
          /\ UNCHANGED <<files, backups, operation_history>>]_vars

\* The empty undo is repeated, on a filesystem that holds files and backups.
C7_Witness ==
    /\ Undone
    /\ last.error = "No operations to undo"
    /\ last.follows.call = "undo_last_operation"
    /\ ~last.follows.success
    /\ \E p \in Paths : files[p] # NoFile
    /\ \E b \in BackupPaths : backups[b] # NoFile

\* C8: a write_file with create_backup = False over an existing file records
\* no backup reference and no prior content, and the undo that follows it
\* succeeds and leaves the file with the content just written.
C8_UnbackedWriteUndo ==
    [][(last.call = "write_file" /\ last.success /\ ~last.create_backup
        /\ last.pre # NoFile /\ last'.call = "undo_last_operation")
       => /\ Top(operation_history).backup_path = NoPath
          /\ Top(operation_history).original_content = ""
          /\ last'.success
          /\ files[last.path] = last.content
          /\ files' = files]_vars

C8_Witness ==
    /\ RightAfter("write_file")
    /\ ~last.follows.create_backup
    /\ last.follows.pre = OldContent(last.path)
    /\ last.success
    /\ files[last.path] = last.follows.content
    /\ last.follows.content = "v1"

\* C9: a successful write_file returns and records the kind Create when the
\* path did not exist right before the call, and Modify when it did.
C9_CreateModify ==
    (last.call = "write_file" /\ last.success)
        => /\ last.operation = (IF last.pre = NoFile THEN "create" ELSE "modify")
           /\ Top(operation_history).operation = last.operation

\* What the spec's restore order makes of the filesystem fs, given the backups
\* bk, when record r is undone.
RestoreOrder(fs, bk, r) ==
    CASE r.operation = "create" ->
            [p \in Paths |-> IF p = r.file_path THEN NoFile ELSE fs[p]]
      [] r.operation \in {"modify", "remove"}
         /\ r.backup_path # NoPath /\ bk[r.backup_path] # NoFile ->
            [p \in Paths |-> IF p = r.file_path THEN bk[r.backup_path] ELSE fs[p]]
      [] r.operation \in {"modify", "remove"}
         /\ ~(r.backup_path # NoPath /\ bk[r.backup_path] # NoFile)
         /\ r.original_content # "" ->
            [p \in Paths |-> IF p = r.file_path THEN r.original_content ELSE fs[p]]
      [] OTHER -> fs

\* C10: undo_last_operation on a Modify or Remove record restores the file
\* from the record's backup if the backup file exists, else rewrites the
\* record's prior content if it is non-empty, else changes nothing; on a Create
\* record it deletes the file if it exists; it reports success in every case.
C10_UndoRestoreOrder ==
    [][(operation_history # <<>> /\ last'.call = "undo_last_operation")
       => /\ last'.success
          /\ files' = RestoreOrder(files, backups, Top(operation_history))]_vars

\* A Create record is undone while its file exists: the file is deleted.
C10_Witness ==
    /\ Undone
    /\ last.success
    /\ last.operation = "create"
    /\ last.pre # NoFile
    /\ files[last.path] = NoFile

\* C11: execute_tool on a registered tool with every required parameter
\* present never lets an exception out: when the handler returns, the result
\* is the handler's; when calling the handler raises (here: a keyword it does
\* not accept), the result is the failure 'Tool execution failed' and the
\* filesystem, the backups and the history are as they were.
C11_ErrorNormalisation ==
    [][(last'.call = "execute_tool"
        /\ last'.tool \in ToolNames
        /\ RequiredNames(last'.tool) \subseteq last'.kwargs)
       => /\ ~last'.escaped
          /\ IF last'.kwargs \subseteq Accepts(last'.tool)
             THEN /\ last'.handler = Tools[last'.tool].function
                  /\ last'.error # "Tool execution failed"
             ELSE /\ last'.handler = "none"
                  /\ ~last'.success
                  /\ last'.error = "Tool execution failed"
                  /\ UNCHANGED <<files, backups, operation_history>>]_vars

\* The handler of fs_write raised on a keyword it does not accept, after a
\* write had gone through.
C11_Witness ==
    /\ last.call = "execute_tool"
    /\ last.tool = "fs_write"
    /\ last.kwargs = {"path", "content", "verbose"}
    /\ last.error = "Tool execution failed"
    /\ ~last.escaped
    /\ operation_history # <<>>

\* C12: execute_tool and get_tool_help on a name that is not registered
\* return the failure 'Tool not found', reach no handler, and leave the
\* filesystem, the backups and the history as they were.  (The registry is
\* Tools, which nothing assigns after registration.)
C12_UnknownTool ==
    [][(last'.call \in {"execute_tool", "get_tool_help"} /\ last'.tool \notin ToolNames)
       => /\ ~last'.success
          /\ last'.error = "Tool not found"
          /\ last'.handler = "none"
          /\ UNCHANGED <<files, backups, operation_history>>]_vars

C12_Witness ==
    /\ last.call = "get_tool_help"
    /\ last.tool = "no_such_tool"
    /\ last.error = "Tool not found"
    /\ operation_history # <<>>
    /\ \E p \in Paths : files[p] # NoFile

\* C13: every result of execute_tool is either a success (success flag true,
\* no error field) or a failure (error field, no success flag), never both and
\* never neither.
C13_TaggedResult ==
    (last.call = "execute_tool" /\ ~last.escaped)
        => (last.success # (last.error # ""))

\* C14: when the snapshot copy fails during a backup-enabled write_file or
\* remove_file on an existing file, whatever its content, and the call
\* succeeds with an empty backup reference in its record, the undo that
\* follows leaves the file with the content it had before the call.
C14_BackupFailureDegrades ==
    (/\ Undone
     /\ last.follows.call \in {"write_file", "remove_file"}
     /\ last.follows.success
     /\ last.follows.create_backup
     /\ last.follows.pre # NoFile
     /\ last.backup_path = NoPath)
        => /\ last.success
           /\ files[last.path] = last.follows.pre

\* C15: every undo_last_operation on a history that is not empty removes
\* exactly its most recent record and appends none; on an empty history it
\* fails with 'No operations to undo' and the history stays empty; and a
\* caller that keeps calling undo_last_operation empties the history.
C15_UndoDrains ==
    /\ [][last'.call = "undo_last_operation"
          => IF operation_history = <<>>
             THEN /\ ~last'.success
                  /\ last'.error = "No operations to undo"
                  /\ operation_history' = <<>>
             ELSE /\ last'.success
                  /\ last'.popped = Top(operation_history).timestamp
                  /\ operation_history' =
                         SubSeq(operation_history, 1, Len(operation_history) - 1)]_vars
    /\ \A n \in 0..MaxOps :
          (Undone /\ Len(operation_history) = n) ~> (operation_history = <<>>)

\* Two records were appended and kept, undone one by one, and the call after
\* that found nothing to undo.
C15_Witness ==
    /\ Undone
    /\ serial = 2
    /\ config.max_history >= 2
    /\ operation_history = <<>>
    /\ last.error = "No operations to undo"
    /\ last.follows.call = "undo_last_operation"
    /\ last.follows.success

\* C16: remove_file on a path that does not exist fails with 'File not found'
\* and leaves the files, the backups and the history as they were; on an
\* existing file it succeeds, deletes that file and no other, and appends
\* exactly one record, a Remove record of that path (the oldest record may
\* leave the history as this one enters).
C16_RemoveMissing ==
    [][last'.call = "remove_file"
       => IF files[last'.path] = NoFile
          THEN /\ ~last'.success
               /\ last'.error = "File not found"
               /\ UNCHANGED <<files, backups, operation_history>>
          ELSE /\ last'.success
               /\ files' = [files EXCEPT ![last'.path] = NoFile]
               /\ operation_history' # <<>>
               /\ Top(operation_history').operation = "remove"
               /\ Top(operation_history').file_path = last'.path
               /\ LET appended == Append(operation_history, Top(operation_history'))
                  IN  operation_history' \in {appended, Tail(appended)}]_vars

\* A file was removed, and removing it a second time failed.
C16_Witness ==
    /\ last.call = "remove_file"
    /\ ~last.success
    /\ last.error = "File not found"
    /\ operation_history # <<>>
    /\ Top(operation_history).operation = "remove"
    /\ Top(operation_history).file_path = last.path
    /\ \E b \in BackupPaths : backups[b] # NoFile

\* C17: a write_file or remove_file that fails leaves the files, the backup
\* directory and the history exactly as they were before the call.
C17_NoEffectOnFailure ==
    [][(last'.call \in {"write_file", "remove_file"} /\ ~last'.success)
       => UNCHANGED <<files, backups, operation_history>>]_vars

\* The positions (from 1) of the text where the pattern's character stands.
Occurrences(text, pattern) == {j \in 1..Len(text) : text[j] = pattern}
\* The line (from 1) a position of the text lies on.
LineOf(text, j) == 1 + Cardinality({i \in 1..(j - 1) : text[i] = "\n"})
\* The k-th occurrence, counted from the start of the text.
Occurrence(text, pattern, k) ==
    CHOOSE j \in Occurrences(text, pattern) :
        Cardinality({i \in Occurrences(text, pattern) : i <= j}) = k

\* C18: search_files with a content pattern returns exactly the decodable
\* files with at least one match, each once; an entry's content_matches is
\* the number of all matches in the file, and its match_lines has
\* min(content_matches, 5) entries, the k-th being the k-th match of the file.
C18_SearchMatchCap ==
    last.call = "search_files"
        => /\ \A i \in DOMAIN last.directory :
                LET file == last.directory[i]
                    total == Cardinality(Occurrences(file.content, last.content_pattern))
                    found == {n \in DOMAIN last.results :
                                 last.results[n].filename = file.filename}
                IN  IF file.decodable /\ total > 0
                    THEN /\ Cardinality(found) = 1
                         /\ \A n \in found :
                              LET entry == last.results[n]
                              IN  /\ entry.content_matches = total
                                  /\ Len(entry.match_lines) = Min(total, MatchLinesCap)
                                  /\ \A k \in DOMAIN entry.match_lines :
                                       LET j == Occurrence(file.content,
                                                           last.content_pattern, k)
                                       IN  /\ entry.match_lines[k].line_number
                                                = LineOf(file.content, j)
                                           /\ entry.match_lines[k].match_text
                                                = last.content_pattern
                    ELSE found = {}
           /\ \A n \in DOMAIN last.results :
                \E i \in DOMAIN last.directory :
                    last.directory[i].filename = last.results[n].filename

\* A file with six matches on two lines is returned with content_matches 6
\* and five match lines; the file next to it, which does not decode, is not
\* returned.
C18_Witness ==
    /\ last.call = "search_files"
    /\ last.content_pattern = "c"
    /\ last.directory[1].content = <<"c", "\n", "c", "c", "c", "c", "c">>
    /\ ~last.directory[2].decodable
    /\ Len(last.results) = 1
    /\ last.results[1].content_matches = 6
    /\ Len(last.results[1].match_lines) = 5
    /\ last.results[1].match_lines[1].line_number = 1
    /\ last.results[1].match_lines[5].line_number = 2

\* C19: a Modify or Remove record has exactly one of: a backup reference
\* that resolves to an existing backup file, a non-empty prior content; a
\* Create record has an empty backup reference and an empty prior content.
\* (Stated for the record a successful write_file or remove_file on an
\* existing file has just appended, with max_history >= 1.)
C19_RecordInvariant ==
    (last.call \in {"write_file", "remove_file"} /\ last.success /\ last.pre # NoFile
     /\ config.max_history >= 1)
        => LET r == Top(operation_history)
               resolves == r.backup_path # NoPath /\ backups[r.backup_path] # NoFile
               prior == r.original_content # ""
           IN  IF r.operation \in {"modify", "remove"}
               THEN resolves # prior
               ELSE r.backup_path = NoPath /\ r.original_content = ""

\* C20: the content of a backup file, once it exists, is never changed by a
\* later write_file, remove_file or undo_last_operation.
C20_SnapshotsImmutable ==
    [][\A b \in BackupPaths : backups[b] # NoFile => backups'[b] = backups[b]]_vars

\* C21: no write_file, remove_file, undo_last_operation or
\* clear_operation_history, and no eviction from the history, removes a file
\* from the backup directory: a backup file that exists keeps existing.
C21_BackupsNeverDeleted ==
    [][\A b \in BackupPaths : backups[b] # NoFile => backups'[b] # NoFile]_vars

\* The history was cleared with a record in it whose backup file is still
\* there.
C21_Witness ==
    /\ last.call = "clear_operation_history"
    /\ last.popped >= 1
    /\ operation_history = <<>>
    /\ \E b \in BackupPaths : backups[b] # NoFile

\* C22: read_file and search_files, whether they succeed or fail, leave the
\* files, the backups and the history as they were; a successful write_file
\* or remove_file appends exactly one record (the oldest may leave as it
\* enters), and no other call puts a record into the history.
C22_ReadSearchPure ==
    [][/\ last'.call \in {"read_file", "search_files"}
          => UNCHANGED <<files, backups, operation_history>>
       /\ IF last'.call \in {"write_file", "remove_file"} /\ last'.success
          THEN /\ operation_history' # <<>>
               /\ Top(operation_history').timestamp = serial'
               /\ serial' = serial + 1
               /\ LET appended == Append(operation_history, Top(operation_history'))
                  IN  operation_history' \in {appended, Tail(appended)}
          ELSE \A i \in DOMAIN operation_history' :
                   \E j \in DOMAIN operation_history :
                       operation_history'[i] = operation_history[j]]_vars

\* A read of a file that was written and a search that found it, with a
\* record in the history and a backup in the backup directory.
C22_Witness ==
    /\ last.call = "search_files"
    /\ last.success
    /\ last.results # {}
    /\ operation_history # <<>>
    /\ \E b \in BackupPaths : backups[b] # NoFile

\* C23: max_history is read on every append: after it was set to m >= 1 at
\* runtime, a successful write_file or remove_file leaves the last m records
\* of the history with the new record appended, and so at most m records.
C23_MaxHistoryReadOnAppend ==
    [][(/\ last'.call \in {"write_file", "remove_file"}
        /\ last'.success
        /\ ConfigGet(config, "max_history") >= 1
        /\ operation_history' # <<>>)
       => LET m == ConfigGet(config, "max_history")
              appended == Append(operation_history, Top(operation_history'))
          IN  /\ Top(operation_history').timestamp = serial'
              /\ Len(operation_history') = Min(Len(appended), m)
              /\ Len(operation_history') <= m
              /\ operation_history' =
                     SubSeq(appended, Len(appended) - Len(operation_history') + 1,
                            Len(appended))]_vars

\* max_history was lowered to 1 after the first record; the second write
\* left its own record alone.
C23_Witness ==
    /\ last.call \in {"write_file", "remove_file"}
    /\ last.success
    /\ last.follows.call = "set"
    /\ last.follows.path = <<"preferences", "max_history">>
    /\ ConfigGet(config, "max_history") = 1
    /\ serial = 2
    /\ Len(operation_history) = 1
    /\ operation_history[1].timestamp = 2

\* C24: the backup directory is read on every operation: after
\* preferences.backup_directory was changed at runtime, the snapshot of a
\* successful write_file or remove_file is stored in the directory now
\* configured.
C24_BackupDirReadOnOperation ==
    (/\ last.call \in {"write_file", "remove_file"}
     /\ last.success
     /\ last.backup_path # NoPath)
    => /\ last.backup_path[1] = ConfigGet(config, "backup_directory")
       /\ backups[last.backup_path] = last.pre

\* C25: when two engines interleave write_file calls, no call fails, and once
\* every call has returned a file that was written holds the content of the
\* write that was applied to it last.
C25_LastWriterWins ==
    (/\ \A e \in Engines : last.engines[e].pc = "idle"
     /\ last.writer # 0)
    => /\ \A e \in Engines :
              last.engines[e].file_path # NoPath => last.engines[e].success
       /\ files[last.engines[last.writer].file_path] = last.engines[last.writer].content

\* C26: an undo of a record for a path never leaves in the file the content
\* another path started with: what it restores is content the path itself
\* held, also when both paths have the same base name and were backed up
\* within one second.  Stated for max_history >= 1.
C26_NoCrossFileRestore ==
    (Undone /\ last.success /\ config.max_history >= 1)
    => \A q \in Paths \ {last.path} : files[last.path] # OldContent(q)

\* C27: a successful undo_last_operation changes no file but the one at the
\* popped record's path, changes no backup file, and takes the last record
\* off the history, whose other records stay as they were, in order.
C27_UndoTouchesOnlyTarget ==
    [][(last'.call = "undo_last_operation" /\ last'.success)
       => /\ operation_history # <<>>
          /\ last'.path = Top(operation_history).file_path
          /\ \A p \in Paths \ {last'.path} : files'[p] = files[p]
          /\ backups' = backups
          /\ operation_history' =
                 SubSeq(operation_history, 1, Len(operation_history) - 1)]_vars

\* An undo restored one file from its backup while the other file, written
\* since the start, kept what was written, and the older record stayed.
C27_Witness ==
    /\ Undone
    /\ last.success
    /\ last.backup_path # NoPath
    /\ files[last.path] = OldContent(last.path)
    /\ last.pre # files[last.path]
    /\ Len(operation_history) = 1
    /\ operation_history[1].file_path # last.path
    /\ files[operation_history[1].file_path] = "v1"

\* C28: an undo_last_operation that fails while reversing the record it
\* took leaves the history as it was before the call.
C28_FailedUndoKeepsRecord ==
    [][(/\ last'.call = "undo_last_operation"
        /\ ~last'.success
        /\ operation_history # <<>>)
       => operation_history' = operation_history]_vars

\* C29: fs_write and fs_remove called through execute_tool without a backup
\* argument take a snapshot of an existing file exactly when the configured
\* backup_enabled is true.
C29_DispatcherHonoursBackupDefault ==
    (/\ last.call = "execute_tool"
     /\ last.handler \in {"_fs_write", "_fs_remove"}
     /\ "backup" \notin last.kwargs
     /\ last.success
     /\ last.pre # NoFile)
    => ((last.backup_path # NoPath) <=> ConfigGet(config, "backup_enabled"))

\* C30: the history belongs to one engine instance: a newly constructed
\* engine has an empty history whatever the engine before it recorded, and
\* an undo_last_operation as its first call fails with 'No operations to
\* undo' and changes nothing.
C30_HistoryPerEngine ==
    [][/\ last'.call = "__init__" => operation_history' = <<>>
       /\ (last.call = "__init__" /\ last'.call = "undo_last_operation")
          => /\ ~last'.success
             /\ last'.error = "No operations to undo"
             /\ UNCHANGED <<files, backups, operation_history>>]_vars

\* An undo failed on an engine constructed after another engine had written
\* a file and left its backup.
C30_Witness ==
    /\ Undone
    /\ last.follows.call = "__init__"
    /\ last.error = "No operations to undo"
    /\ serial >= 1
    /\ \E p \in Paths : files[p] = "v1"
    /\ \E b \in BackupPaths : backups[b] # NoFile
====
